---- MODULE Spec2Model ----
(***************************************************************************)
(* A model of snakeoil.PY, the TORCS/SCR client: the control loop          *)
(* drive_example with its gear and clutch policy, and the telemetry        *)
(* decoder ServerState.parse_server_str.                                   *)
(*                                                                         *)
(* Numbers.  The floats of the action (accel, brake, clutch, steer), of    *)
(* trackPos and of the lap times are fixed-point integers in units of      *)
(* 0.0001, the smallest increment the control loop uses (the brake ramp,   *)
(* line 352): One stands for 1.0, 3000 for 0.3, 220 for 0.022.  speedX,    *)
(* the rangefinder readings, gear and rpm are whole numbers as the server  *)
(* reports them.                                                           *)
(***************************************************************************)
EXTENDS Integers, Sequences, FiniteSets, TLC

VARIABLES
    R,              \* c.R.d, the action mapping (DriverAction.d)
    S,              \* c.S.d as drive_example reads it (the required fields)
    prev_cur_time,  \* drive_example.prev_cur_time
    cur_time,       \* drive_example.cur_time
    pc,             \* which call of the client loop comes next
    outcome,        \* how this tick's call of drive_example ended
    pidCalls,       \* calls of each PI_CONTROLLER.output in this tick, and the measurements passed
    stdout,         \* what this tick's call of drive_example printed
    ticks,          \* telemetry records received so far
    probe,          \* argument and result of a direct call of a pure function
    d,              \* ServerState.d as the decoder builds it
    servstr,        \* ServerState.servstr
    decoded,        \* the last payload handed to parse_server_str, and how the call ended
    so,             \* Client.so: the socket, or None once shutdown closed it
    sockdata,       \* get_servers_input's sockdata, the bytes of the last datagram
    io              \* the socket call the last step made, and the bytes it sent

vars == <<R, S, prev_cur_time, cur_time, pc, outcome, pidCalls, stdout, ticks,
          probe, d, servstr, decoded, so, sockdata, io>>

ctlVars == <<R, S, prev_cur_time, cur_time, pc, outcome, pidCalls, stdout, ticks>>

decVars == <<d, servstr, decoded>>

netVars == <<so, sockdata, io>>

----------------------------------------------------------------------------
(* Bounds of the model *)

MaxTicks == 2

----------------------------------------------------------------------------
(* Program constants *)

One == 10000

Sentinel == -One

Road_Width == 20

gearUp == <<5000, 6000, 6000, 6500, 7000, 0>>

gearDown == <<0, 2500, 3000, 3000, 3500, 3500>>

SteerThreshold == 400

BrakeSpeed == 100

CruiseSpeed == 150

ClutchRamp == 10

BrakeRamp == 1

RecoveryAccel == 3000

LaunchClutch == 5000

ClutchDecay == 200

LapOffset == 220

\* an empty dict
NoTelemetry == [x \in {} |-> 0]

DefaultAction ==
    [accel |-> 2000, brake |-> 0, clutch |-> 0, gear |-> 1, steer |-> 0,
     focus |-> <<-90, -45, 0, 45, 90>>, meta |-> 0]

----------------------------------------------------------------------------
(* Pure helpers *)

Abs(x) == IF x < 0 THEN -x ELSE x

clipIdentity(v, lo, hi) == v

clip(v, lo, hi) == IF v < lo THEN lo ELSE IF v > hi THEN hi ELSE v

\* A Python list subscript: 0-based, a negative index counts from the end,
\* anything else outside the list raises IndexError.
Subscript(list, i) ==
    IF i >= 0 /\ i < Len(list) THEN [raised |-> "none", value |-> list[i + 1]]
    ELSE IF i < 0 /\ -i <= Len(list)
         THEN [raised |-> "none", value |-> list[Len(list) + i + 1]]
         ELSE [raised |-> "IndexError", value |-> 0]

Returned(v) == [raised |-> "none", value |-> v]

Raised(e) == [raised |-> e, value |-> 0]

\* get_gear reading the thresholds at gear instead of gear-1
get_gearOffByOne(gear, rpm) ==
    IF gear < 1 THEN Returned(1)
    ELSE IF gear < 6 /\ rpm >= gearUp[gear + 1] THEN Returned(gear + 1)
    ELSE IF gear > 1 /\ gear < 6 /\ rpm <= gearDown[gear + 1] THEN Returned(gear - 1)
    ELSE Returned(IF gear > 6 THEN 6 ELSE gear)

\* get_gear shifting up two gears at once
get_gearTwoSteps(gear, rpm) ==
    IF gear < 1 THEN Returned(1)
    ELSE IF gear < 5 /\ rpm >= gearUp[gear] THEN Returned(gear + 2)
    ELSE IF gear > 1 /\ gear <= 6 /\ rpm <= gearDown[gear] THEN Returned(gear - 1)
    ELSE Returned(IF gear > 6 THEN 6 ELSE gear)

\* get_gear that shifts down at the threshold it shifted up at
get_gearNoHysteresis(gear, rpm) ==
    IF gear < 1 THEN Returned(1)
    ELSE IF gear < 6 /\ rpm >= gearUp[gear] THEN Returned(gear + 1)
    ELSE IF gear > 1 /\ gear <= 6 /\ rpm <= gearUp[gear - 1] THEN Returned(gear - 1)
    ELSE IF gear > 6 THEN Raised("IndexError")
    ELSE Returned(gear)

\* get_gear(c) on gear = int(S['gear']) and rpm = int(S['rpm']).  Python's
\* `and` does not evaluate its right operand when the left one is false.
get_gear(gear, rpm) ==
    IF gear < 1 THEN Returned(1)
    ELSE LET up == IF gear < 6 THEN Subscript(gearUp, gear - 1) ELSE Returned(0)
         IN  IF up.raised # "none" THEN up
             ELSE IF gear < 6 /\ rpm >= up.value THEN Returned(gear + 1)
             ELSE LET down == IF gear > 1 THEN Subscript(gearDown, gear - 1)
                              ELSE Returned(0)
                  IN  IF down.raised # "none" THEN down
                      ELSE IF gear > 1 /\ rpm <= down.value THEN Returned(gear - 1)
                      ELSE Returned(gear)

\* clutching that engages the launch clutch in every gear
clutchingAlwaysLaunch(r) == [r EXCEPT !.clutch = LaunchClutch]

\* clutching(c), on the action mapping
clutching(r) ==
    IF r.gear < 2 THEN [r EXCEPT !.clutch = LaunchClutch]
    ELSE [r EXCEPT !.clutch = clip(r.clutch - ClutchDecay, 0, One)]

\* the distance to the nearer of the two edges
distance_from_edgeNearest(trackPos) == One - Abs(trackPos)

\* distance_from_edge of drive_example
distance_from_edge(trackPos) ==
    IF trackPos >= 0 THEN Abs(One - trackPos) ELSE Abs(-One + trackPos)

\* math.sin on the angles the model feeds it (radians, units of 0.0001)
HalfPi == 15708

Sin(a) == CASE a = 0 -> 0 [] a = HalfPi -> One [] a = -HalfPi -> -One

----------------------------------------------------------------------------
(* drive_example *)

\* The steering correction of line 347, trackPos/Road_Width +
\* (track[6]-track[12])/(track[9]*2); the division raises ZeroDivisionError
\* when track[9] is 0.
SteerCorrection(s) ==
    IF s.track[9] * 2 = 0 THEN Raised("ZeroDivisionError")
    ELSE Returned((s.trackPos \div Road_Width)
                  + (((s.track[6] - s.track[12]) * One) \div (s.track[9] * 2)))

\* next_predicted_pos of line 345, with dt = .01
next_predicted_pos(s) ==
    distance_from_edge(s.trackPos) + ((s.speedX * Sin(s.angle)) \div 100)

\* What a call of drive_example leaves behind: the action, the previous
\* lap time, how it ended, the measurements passed to the lateral and to the
\* speed controller, and what it printed.
Tick(r, prev, out, lat, spd, printed) ==
    [R |-> r, prev_cur_time |-> prev, outcome |-> out,
     pidCalls |-> [lateral |-> Len(lat), speed |-> Len(spd), measured |-> lat \o spd],
     stdout |-> printed]

\* bookkeeping that always advances to the current lap time
BookkeepingAlwaysAdvance(cur, prev) == cur

\* Lines 386-390: the time bookkeeping at the end of a tick.
Bookkeeping(cur, prev) == IF cur > prev THEN cur ELSE cur - LapOffset

\* ThrottleAndGear without the off-track recovery value
ThrottleAndGearNoRecovery(r, s, prev, pidSpeed) ==
    LET r1 == [r EXCEPT !.accel = clip(r.accel + pidSpeed, 0, One)]
        g  == get_gear(s.gear, s.rpm)
    IN  IF g.raised # "none"
        THEN Tick(r1, prev, g.raised, <<next_predicted_pos(s)>>, <<s.speedX>>, <<>>)
        ELSE Tick(clutching([r1 EXCEPT !.gear = g.value]),
                  Bookkeeping(s.curLapTime, prev), "done",
                  <<next_predicted_pos(s)>>, <<s.speedX>>, <<>>)

\* Lines 361-392: throttle, gear selection, clutch policy, bookkeeping.  r is
\* the action after the brake/clutch arbitration.
ThrottleAndGear(r, s, prev, pidSpeed) ==
    LET onRoad  == Abs(s.trackPos) < One
        r1      == IF onRoad
                   THEN [r EXCEPT !.accel = clip(r.accel + pidSpeed, 0, One)]
                   ELSE [r EXCEPT !.accel = RecoveryAccel]
        spd     == IF onRoad THEN <<s.speedX>> ELSE <<>>
        lat     == <<next_predicted_pos(s)>>
        printed == IF onRoad THEN <<>> ELSE <<"out of road">>
        g       == get_gear(s.gear, s.rpm)
    IN  IF g.raised # "none"
        THEN Tick(r1, prev, g.raised, lat, spd, printed)
        ELSE Tick(clutching([r1 EXCEPT !.gear = g.value]),
                  Bookkeeping(s.curLapTime, prev), "done", lat, spd, printed)

\* Arbitration whose hard-cornering branch does not return
ArbitrationNoReturn(r, s, prev, signal_pid_angle, pidSpeed) ==
    LET r1 == [r EXCEPT !.steer = clip(-signal_pid_angle, -One, One)]
    IN  IF Abs(r1.steer) >= SteerThreshold /\ s.speedX >= BrakeSpeed
        THEN ThrottleAndGear([r1 EXCEPT !.clutch = clip(r1.clutch + ClutchRamp, 0, One),
                                        !.brake  = clip(r1.brake + BrakeRamp, 0, One)],
                             s, prev, pidSpeed)
        ELSE IF s.speedX >= CruiseSpeed
        THEN ThrottleAndGear([r1 EXCEPT !.clutch = clip(r1.clutch + ClutchRamp, 0, One),
                                        !.brake  = 0],
                             s, prev, pidSpeed)
        ELSE ThrottleAndGear([r1 EXCEPT !.clutch = 0, !.brake = 0],
                             s, prev, pidSpeed)

\* Lines 349-359: the steer assignment and the brake/clutch arbitration.
Arbitration(r, s, prev, signal_pid_angle, pidSpeed) ==
    LET r1 == [r EXCEPT !.steer = clip(-signal_pid_angle, -One, One)]
    IN  IF Abs(r1.steer) >= SteerThreshold /\ s.speedX >= BrakeSpeed
        THEN Tick([r1 EXCEPT !.clutch = clip(r1.clutch + ClutchRamp, 0, One),
                             !.brake  = clip(r1.brake + BrakeRamp, 0, One)],
                  prev, "corner", <<next_predicted_pos(s)>>, <<>>, <<>>)
        ELSE IF s.speedX >= CruiseSpeed
        THEN ThrottleAndGear([r1 EXCEPT !.clutch = clip(r1.clutch + ClutchRamp, 0, One),
                                        !.brake  = 0],
                             s, prev, pidSpeed)
        ELSE ThrottleAndGear([r1 EXCEPT !.clutch = 0, !.brake = 0],
                             s, prev, pidSpeed)

\* drive_example without the first-tick guard
drive_exampleNoGuard(r, s, prev, pidAngle, pidSpeed) ==
    LET corr == SteerCorrection(s)
    IN  IF corr.raised # "none"
        THEN Tick(r, prev, corr.raised, <<next_predicted_pos(s)>>, <<>>, <<>>)
        ELSE Arbitration(r, s, prev, pidAngle - corr.value, pidSpeed)

\* drive_example(c) on action r, telemetry s and the previous lap time;
\* pidAngle and pidSpeed are what controllerofdistance.output and
\* controllerofspeed.output return if they are called.
drive_example(r, s, prev, pidAngle, pidSpeed) ==
    IF prev = Sentinel
    THEN Tick(r, s.curLapTime, "first", <<>>, <<>>, <<>>)
    ELSE LET corr == SteerCorrection(s)
         IN  IF corr.raised # "none"
             THEN Tick(r, prev, corr.raised, <<next_predicted_pos(s)>>, <<>>, <<>>)
             ELSE Arbitration(r, s, prev, pidAngle - corr.value, pidSpeed)

----------------------------------------------------------------------------
(* The telemetry decoder.  A payload is a sequence of characters; "NUL" is  *)
(* the zero byte the server ends a message with.                            *)

Whitespace == {" ", "\n"}

DigitValue == [c \in {"0", "1", "2", "3", "4", "5", "6", "7", "8", "9"} |->
                 CASE c = "0" -> 0 [] c = "1" -> 1 [] c = "2" -> 2 [] c = "3" -> 3
                   [] c = "4" -> 4 [] c = "5" -> 5 [] c = "6" -> 6 [] c = "7" -> 7
                   [] c = "8" -> 8 [] c = "9" -> 9]

\* The values of ServerState.d: a float, a retained string or a list.
Float(n) == [kind |-> "float", n |-> n, text |-> <<>>, items |-> <<>>]

Str(cs) == [kind |-> "str", n |-> 0, text |-> cs, items |-> <<>>]

List(vs) == [kind |-> "list", n |-> 0, text |-> <<>>, items |-> vs]

Drop(s, n) == SubSeq(s, n + 1, Len(s))

RECURSIVE lstrip(_, _)
\* bytes.lstrip / str.lstrip: drop the leading characters that are in chars
lstrip(s, chars) ==
    IF s # <<>> /\ Head(s) \in chars THEN lstrip(Tail(s), chars) ELSE s

RECURSIVE rstrip(_, _)
rstrip(s, chars) ==
    IF s # <<>> /\ s[Len(s)] \in chars THEN rstrip(SubSeq(s, 1, Len(s) - 1), chars) ELSE s

strip(s) == rstrip(lstrip(s, Whitespace), Whitespace)

\* s[:-1]: all but the last character; the empty sequence stays empty
DropLast(s) == IF s = <<>> THEN <<>> ELSE SubSeq(s, 1, Len(s) - 1)

StartsWith(s, sep) == Len(s) >= Len(sep) /\ SubSeq(s, 1, Len(sep)) = sep

RECURSIVE splitFrom(_, _, _)
\* str.split(sep) continued: cur is the piece being read
splitFrom(s, sep, cur) ==
    IF s = <<>> THEN <<cur>>
    ELSE IF StartsWith(s, sep) THEN <<cur>> \o splitFrom(Drop(s, Len(sep)), sep, <<>>)
    ELSE splitFrom(Tail(s), sep, Append(cur, Head(s)))

\* str.split(sep) with a separator: the pieces between the occurrences of
\* sep taken left to right, empty pieces kept, always at least one piece
split(s, sep) == splitFrom(s, sep, <<>>)

RECURSIVE DecimalValue(_)
DecimalValue(cs) ==
    IF cs = <<>> THEN 0 ELSE 10 * DecimalValue(DropLast(cs)) + DigitValue[cs[Len(cs)]]

\* float(s) on the tokens the model feeds it: an unsigned decimal integer
\* converts, anything else raises ValueError.
IsNumber(cs) == cs # <<>> /\ \A i \in 1..Len(cs) : cs[i] \in DOMAIN DigitValue

\* destringify(s) for a str
destringifyStr(cs) ==
    IF cs = <<>> THEN Str(cs)
    ELSE IF IsNumber(cs) THEN Float(DecimalValue(cs))
    ELSE Str(cs)

\* destringify keeping a one-token group as a list
destringifyAlwaysList(tokens) ==
    List([i \in 1..Len(tokens) |-> destringifyStr(tokens[i])])

\* destringify(s) for a list of str
destringify(tokens) ==
    IF tokens = <<>> THEN List(<<>>)
    ELSE IF Len(tokens) < 2 THEN destringifyStr(tokens[1])
    ELSE List([i \in 1..Len(tokens) |-> destringifyStr(tokens[i])])

\* self.servstr of line 225
TrimPayload(raw) == DropLast(strip(raw))

\* sslisted of line 226
sslisted(trimmed) == split(rstrip(lstrip(strip(trimmed), {"("}), {")"}), <<")", "(">>)

Put(dict, k, v) == [x \in DOMAIN dict \cup {k} |-> IF x = k THEN v ELSE dict[x]]

RECURSIVE StoreGroups(_, _)
\* the loop of lines 227-229 over the groups
StoreGroups(dict, groups) ==
    IF groups = <<>> THEN dict
    ELSE LET w == split(Head(groups), <<" ">>)
         IN  StoreGroups(Put(dict, w[1], destringify(Tail(w))), Tail(groups))

\* parse_server_str(server_string): the mapping afterwards
parse_server_str(dict, raw) == StoreGroups(dict, sslisted(TrimPayload(raw)))

----------------------------------------------------------------------------
(* The action encoder, DriverAction.__repr__, character by character *)

\* The keys of DriverAction.d in the order the dict literal inserts them;
\* assigning to an existing key keeps its place.
ActionKeys == <<"accel", "brake", "clutch", "gear", "steer", "focus", "meta">>

KeyText ==
    [k \in {"accel", "brake", "clutch", "gear", "steer", "focus", "meta"} |->
       CASE k = "accel"  -> <<"a", "c", "c", "e", "l">>
         [] k = "brake"  -> <<"b", "r", "a", "k", "e">>
         [] k = "clutch" -> <<"c", "l", "u", "t", "c", "h">>
         [] k = "gear"   -> <<"g", "e", "a", "r">>
         [] k = "steer"  -> <<"s", "t", "e", "e", "r">>
         [] k = "focus"  -> <<"f", "o", "c", "u", "s">>
         [] k = "meta"   -> <<"m", "e", "t", "a">>]

DigitChar == <<"0", "1", "2", "3", "4", "5", "6", "7", "8", "9">>

RECURSIVE Digits(_)
\* the decimal digits of a natural number
Digits(n) ==
    IF n < 10 THEN <<DigitChar[n + 1]>>
    ELSE Digits(n \div 10) \o <<DigitChar[(n % 10) + 1]>>

\* str(x) of an int
IntText(x) == (IF x < 0 THEN <<"-">> ELSE <<>>) \o Digits(Abs(x))

\* '%.3f' % v for v in units of 0.0001: three decimals, rounded (a value
\* exactly half way, which no action field of the model takes, goes up here;
\* Python decides it by the binary float).
Format3(v) ==
    LET m == (Abs(v) + 5) \div 10
    IN  (IF v < 0 THEN <<"-">> ELSE <<>>)
        \o Digits(m \div 1000) \o <<".">>
        \o <<DigitChar[((m \div 100) % 10) + 1], DigitChar[((m \div 10) % 10) + 1],
             DigitChar[(m % 10) + 1]>>

RECURSIVE JoinInts(_)
\* ' '.join([str(x) for x in v])
JoinInts(v) ==
    IF v = <<>> THEN <<>>
    ELSE IF Len(v) = 1 THEN IntText(v[1])
    ELSE IntText(v[1]) \o <<" ">> \o JoinInts(Tail(v))

\* The value of key k as the model holds it, in units of 0.0001: gear and
\* meta are whole numbers in the action mapping.
InUnits(k, v) == IF k \in {"gear", "meta"} THEN v * One ELSE v

\* One pass of the loop of lines 269-276
ReprGroup(r, k) ==
    <<"(">> \o KeyText[k] \o <<" ">>
    \o (IF k = "focus" THEN JoinInts(r[k]) ELSE Format3(InUnits(k, r[k])))
    \o <<")">>

RECURSIVE ReprFrom(_, _)
ReprFrom(r, keys) ==
    IF keys = <<>> THEN <<>> ELSE ReprGroup(r, Head(keys)) \o ReprFrom(r, Tail(keys))

\* __repr__ ending with the line feed of the statement after its return
reprWithNewline(r) == ReprFrom(r, ActionKeys) \o <<"\n">>

\* DriverAction.__repr__: `return out`; the `return out+'\n'` after it is
\* never reached.
repr(r) == ReprFrom(r, ActionKeys)

----------------------------------------------------------------------------
(* The inputs of the control loop *)

LapTimes == {-9780, 200}

TrackPositions == {-15000, 0, 10000}

Speeds == {50, 100, 150}

Angles == {HalfPi}

\* The rangefinder readings drive_example consults: track[6], track[9]
\* (forward) and track[12], in that order.
TrackReadings == {<<60, 100, 50>>, <<50, 0, 50>>}

track(t) == [i \in {6, 9, 12} |-> IF i = 6 THEN t[1] ELSE IF i = 9 THEN t[2] ELSE t[3]]

\* Reported gear and rpm
GearReadings == {<<0, 2000>>, <<2, 7000>>, <<7, 2000>>}

Telemetry ==
    { [curLapTime |-> lap, angle |-> a, trackPos |-> tp, speedX |-> sp,
       track |-> track(t), gear |-> g[1], rpm |-> g[2]] :
         lap \in LapTimes, a \in Angles, tp \in TrackPositions, sp \in Speeds,
         t \in TrackReadings, g \in GearReadings }

\* What PI_CONTROLLER.output may return: any number, here far below, inside
\* and far above the range of the action fields.
PIDOutputs == {-2 * One, 1000, 2 * One}

NoCalls == [lateral |-> 0, speed |-> 0, measured |-> <<>>]

\* A session long under way: the first tick at lap time 0.02, then 9999 ticks of
\* hard cornering (speedX >= 100, steer clamped at 1), each adding 0.0001 to
\* brake and 0.001 to clutch and leaving accel, gear and prev_cur_time alone.
LateAction ==
    [DefaultAction EXCEPT !.steer = One, !.clutch = One, !.brake = One - BrakeRamp]

----------------------------------------------------------------------------
(* The client loop: get_servers_input, drive_example *)

InitCtl ==
    /\ pc = "get_servers_input"
    /\ S = NoTelemetry
    /\ cur_time = 0
    /\ stdout = <<>>
    /\ pidCalls = NoCalls
    /\ ticks = 0
    /\ outcome = "none"
    /\ \/ R = DefaultAction /\ prev_cur_time = Sentinel
       \/ R = LateAction /\ prev_cur_time = 200

InitProbe == probe = [fn |-> "none"]

InitDec ==
    /\ d = NoTelemetry
    /\ servstr = <<>>
    /\ decoded = [msg |-> <<>>, raw |-> <<>>, last |-> "none"]

\* After setup_connection the client holds a socket.
InitNet ==
    /\ so = "socket"
    /\ sockdata = <<>>
    /\ io = [op |-> "none", data |-> <<>>]

Init == InitCtl /\ InitProbe /\ InitDec /\ InitNet

\* get_servers_input receives a telemetry frame and parses it into c.S.d
\* (lines 196-199).
ReceiveTelemetry ==
    /\ pc = "get_servers_input"
    /\ ticks < MaxTicks
    /\ \E s \in Telemetry : S' = s
    /\ ticks' = ticks + 1
    /\ pc' = "drive_example"
    /\ outcome' = "none"
    /\ pidCalls' = NoCalls
    /\ stdout' = <<>>
    /\ UNCHANGED <<R, prev_cur_time, cur_time>>
    /\ UNCHANGED <<probe, decVars, netVars>>

DriveExample ==
    /\ pc = "drive_example"
    /\ \E pidAngle \in PIDOutputs, pidSpeed \in PIDOutputs :
         LET t == drive_example(R, S, prev_cur_time, pidAngle, pidSpeed)
         IN  /\ R' = t.R
             /\ prev_cur_time' = t.prev_cur_time
             /\ outcome' = t.outcome
             /\ pidCalls' = t.pidCalls
             /\ stdout' = t.stdout
    /\ cur_time' = S.curLapTime
    /\ pc' = "get_servers_input"
    /\ UNCHANGED <<S, ticks, probe, decVars, netVars>>

Next == ReceiveTelemetry \/ DriveExample

Spec == Init /\ [][Next]_vars

----------------------------------------------------------------------------
(* get_gear called directly, on every reported gear and rpm *)

MaxGearIn == 8

GearInputs == -2 .. MaxGearIn

RpmInputs ==
    {0, 9000} \cup
    { t + k : t \in {gearUp[i] : i \in 1..Len(gearUp)}
                    \cup {gearDown[i] : i \in 1..Len(gearDown)},
              k \in {0, 1, 99} }

InitGear ==
    /\ InitCtl
    /\ prev_cur_time = Sentinel
    /\ InitDec
    /\ \E g \in GearInputs, rpm \in RpmInputs :
         probe = [fn |-> "get_gear", gear |-> g, rpm |-> rpm,
                  called |-> FALSE, ret |-> Returned(0),
                  fedBack |-> FALSE, next |-> Returned(0)]
    /\ InitNet

CallGetGear ==
    /\ probe.fn = "get_gear"
    /\ ~probe.called
    /\ probe' = [probe EXCEPT !.called = TRUE, !.ret = get_gear(probe.gear, probe.rpm)]
    /\ UNCHANGED <<ctlVars, decVars, netVars>>

\* get_gear(c) once more at the same rpm, the server reporting the gear the
\* first call selected
CallGetGearAgain ==
    /\ probe.fn = "get_gear"
    /\ probe.called
    /\ probe.ret.raised = "none"
    /\ ~probe.fedBack
    /\ probe' = [probe EXCEPT !.fedBack = TRUE, !.next = get_gear(probe.ret.value, probe.rpm)]
    /\ UNCHANGED <<ctlVars, decVars, netVars>>

NextGear == CallGetGear \/ CallGetGearAgain

SpecGear == InitGear /\ [][NextGear]_vars

----------------------------------------------------------------------------
(* distance_from_edge called on a track position and on its mirror image *)

MaxTrackPos == 60

\* Track positions from -1.5 to 1.5 in steps of 0.025
TrackPosInputs == { k * 250 : k \in -MaxTrackPos .. MaxTrackPos }

InitEdge ==
    /\ InitCtl
    /\ prev_cur_time = Sentinel
    /\ InitDec
    /\ InitNet
    /\ \E x \in TrackPosInputs :
         probe = [fn |-> "distance_from_edge", trackPos |-> x,
                  called |-> FALSE, ret |-> 0, mirrored |-> 0]

\* Lines 337-342 on trackPos and on -trackPos
CallDistanceFromEdge ==
    /\ probe.fn = "distance_from_edge"
    /\ ~probe.called
    /\ probe' = [probe EXCEPT !.called = TRUE,
                              !.ret = distance_from_edge(probe.trackPos),
                              !.mirrored = distance_from_edge(-probe.trackPos)]
    /\ UNCHANGED <<ctlVars, decVars, netVars>>

NextEdge == CallDistanceFromEdge

SpecEdge == InitEdge /\ [][NextEdge]_vars

----------------------------------------------------------------------------
(* parse_server_str called on the payloads of a server *)

MaxGroups == 2

Num(n, cs) == [isNum |-> TRUE, n |-> n, text |-> cs]

Word(cs) == [isNum |-> FALSE, n |-> 0, text |-> cs]

rpmName == <<"r", "p", "m">>

trackName == <<"t", "r", "a", "c", "k">>

gearName == <<"g", "e", "a", "r">>

\* The groups a server sends: a name and its value tokens, each token with
\* the number it stands for.
Groups ==
    { [name |-> rpmName,   tokens |-> <<Num(42, <<"4", "2">>)>>],
      [name |-> rpmName,   tokens |-> <<Num(7, <<"7">>)>>],
      [name |-> trackName, tokens |-> <<Num(1, <<"1">>), Num(2, <<"2">>), Num(30, <<"3", "0">>)>>],
      [name |-> trackName, tokens |-> <<Num(5, <<"5">>)>>],
      [name |-> gearName,  tokens |-> <<Word(<<"N">>)>>] }

Messages == UNION { [1..n -> Groups] : n \in 0..MaxGroups }

RECURSIVE RenderTokens(_)
RenderTokens(tokens) ==
    IF tokens = <<>> THEN <<>>
    ELSE <<" ">> \o Head(tokens).text \o RenderTokens(Tail(tokens))

RECURSIVE Render(_)
\* The wire format: (name v1 v2 ...) groups with nothing between them
Render(msg) ==
    IF msg = <<>> THEN <<>>
    ELSE <<"(">> \o Head(msg).name \o RenderTokens(Head(msg).tokens) \o <<")">>
         \o Render(Tail(msg))

\* A message ends with the zero byte, or with nothing.
Terminators == {<<"NUL">>, <<>>}

Payloads ==
    { [msg |-> m, raw |-> Render(m) \o term] : m \in Messages, term \in Terminators }
    \cup { [msg |-> <<>>, raw |-> <<" ", "\n">>] }

InitDecode ==
    /\ InitCtl
    /\ prev_cur_time = Sentinel
    /\ InitProbe
    /\ InitDec
    /\ InitNet

\* ServerState.parse_server_str(server_string)
ParseServerStr ==
    /\ \E p \in Payloads :
         /\ servstr' = TrimPayload(p.raw)
         /\ d' = parse_server_str(d, p.raw)
         /\ decoded' = [msg |-> p.msg, raw |-> p.raw, last |-> "returned"]
    /\ UNCHANGED <<ctlVars, probe, netVars>>

NextDecode == ParseServerStr

SpecDecode == InitDecode /\ [][NextDecode]_vars

----------------------------------------------------------------------------
(* The session: get_servers_input, respond_to_server and shutdown on the
   datagrams of a server *)

identified == <<"*", "*", "*", "i", "d", "e", "n", "t", "i", "f", "i", "e", "d", "*", "*", "*">>

shutdownMarker == <<"*", "*", "*", "s", "h", "u", "t", "d", "o", "w", "n", "*", "*", "*">>

restart == <<"*", "*", "*", "r", "e", "s", "t", "a", "r", "t", "*", "*", "*">>

racePos == <<"r", "a", "c", "e", "P", "o", "s">>

\* bytes.startswith in place of `in`
ContainsAtStart(s, sub) == Len(s) >= Len(sub) /\ SubSeq(s, 1, Len(sub)) = sub

\* `sub in s` on bytes
Contains(s, sub) ==
    \E i \in 1..(Len(s) - Len(sub) + 1) : SubSeq(s, i, i + Len(sub) - 1) = sub

\* Telemetry as the server renders it
RacePosGroup(cs) == <<"(">> \o racePos \o <<" ">> \o cs \o <<")">>

RpmGroup(cs) == <<"(">> \o rpmName \o <<" ">> \o cs \o <<")">>

\* The datagrams recvfrom delivers: control frames, an empty datagram,
\* telemetry, and telemetry text with a marker in it.
Datagrams ==
    { identified, shutdownMarker, restart, <<>>,
      RacePosGroup(<<"2">>) \o <<"NUL">>,
      RacePosGroup(<<"3">>) \o RpmGroup(<<"7">>) \o <<"NUL">>,
      RpmGroup(<<"4", "2">>) \o <<"NUL">>,
      RacePosGroup(<<"5">>) \o identified \o <<"NUL">>,
      RacePosGroup(<<"5">>) \o shutdownMarker \o <<"NUL">>,
      RpmGroup(<<"9">>) \o restart \o <<"NUL">>,
      shutdownMarker \o identified }

NoIO == [op |-> "none", data |-> <<>>]

InitSession ==
    /\ InitCtl
    /\ prev_cur_time = Sentinel
    /\ InitProbe
    /\ InitDec
    /\ InitNet

\* get_servers_input up to its loop: `if not self.so: return`, then
\* sockdata= bytes()
GetServersInput ==
    /\ pc = "get_servers_input"
    /\ IF so = "None"
         THEN /\ pc' = "respond_to_server"
              /\ outcome' = "returned"
              /\ UNCHANGED sockdata
         ELSE /\ pc' = "recvfrom"
              /\ outcome' = "none"
              /\ sockdata' = <<>>
    /\ io' = NoIO
    /\ stdout' = <<>>
    /\ UNCHANGED <<R, S, prev_cur_time, cur_time, pidCalls, ticks, probe, decVars, so>>

\* One pass of the loop of get_servers_input: recvfrom delivers a datagram
\* or times out (socket.error, sockdata keeps its bytes), then the chain of
\* marker tests.  shutdown() is lines 210-214; the place of the shutdown
\* message is read from the telemetry record before shutdown() is called.
ReceiveDatagram ==
    /\ pc = "recvfrom"
    /\ \E got \in Datagrams, timeout \in BOOLEAN :
         LET data    == IF timeout THEN sockdata ELSE got
             waiting == IF timeout THEN <<"Waiting for data">> ELSE <<>>
         IN  /\ sockdata' = data
             /\ io' = [op |-> "recvfrom", data |-> <<>>]
             /\ IF Contains(data, identified)
                  THEN /\ stdout' = waiting \o <<"Client connected">>
                       /\ UNCHANGED <<pc, outcome, so, decVars>>
                ELSE IF Contains(data, shutdownMarker)
                  THEN IF racePos \in DOMAIN d
                         THEN /\ stdout' = waiting \o <<"Server has stopped the race", "Shutting down">>
                              /\ so' = "None"
                              /\ pc' = "respond_to_server"
                              /\ outcome' = "returned"
                              /\ UNCHANGED decVars
                         ELSE /\ stdout' = waiting
                              /\ pc' = "KeyError"
                              /\ outcome' = "KeyError"
                              /\ UNCHANGED <<so, decVars>>
                ELSE IF Contains(data, restart)
                  THEN /\ stdout' = waiting \o <<"Server has restarted the race", "Shutting down">>
                       /\ so' = "None"
                       /\ pc' = "respond_to_server"
                       /\ outcome' = "returned"
                       /\ UNCHANGED decVars
                ELSE IF data = <<>>
                  THEN /\ stdout' = waiting
                       /\ UNCHANGED <<pc, outcome, so, decVars>>
                ELSE /\ stdout' = waiting
                     /\ servstr' = TrimPayload(data)
                     /\ d' = parse_server_str(d, data)
                     /\ decoded' = [msg |-> <<>>, raw |-> data, last |-> "returned"]
                     /\ pc' = "respond_to_server"
                     /\ outcome' = "returned"
                     /\ UNCHANGED so
    /\ UNCHANGED <<R, S, prev_cur_time, cur_time, pidCalls, ticks, probe>>

\* respond_to_server: `if not self.so: return`, then sendto(repr(self.R))
RespondToServer ==
    /\ pc = "respond_to_server"
    /\ io' = IF so = "None" THEN NoIO ELSE [op |-> "sendto", data |-> repr(R)]
    /\ pc' = "get_servers_input"
    /\ outcome' = "returned"
    /\ stdout' = <<>>
    /\ UNCHANGED <<R, S, prev_cur_time, cur_time, pidCalls, ticks, probe, decVars, so, sockdata>>

NextSession == GetServersInput \/ ReceiveDatagram \/ RespondToServer

SpecSession == InitSession /\ [][NextSession]_vars

----------------------------------------------------------------------------
(* Claims about the control loop, checked under Spec *)

InRange(v, lo, hi) == lo <= v /\ v <= hi

\* C1: after every call of drive_example, whatever the telemetry and the PID
\* outputs were, steer lies in [-1,1] and accel, brake and clutch in [0,1].
C1_ActionClamped ==
    /\ InRange(R.steer, -One, One)
    /\ InRange(R.accel, 0, One)
    /\ InRange(R.brake, 0, One)
    /\ InRange(R.clutch, 0, One)

\* A completed tick in which both PID outputs were far above the range:
\* steer sits on its lower clamp and accel on its upper clamp.
C1_Witness ==
    /\ outcome = "done"
    /\ pidCalls.lateral = 1 /\ pidCalls.speed = 1
    /\ R.steer = -One
    /\ R.accel = One

\* C5: on a call of drive_example with prev_cur_time at the sentinel -1 the
\* action keeps all seven fields, neither PID controller is called and
\* prev_cur_time becomes the record's curLapTime.
C5_FirstTickGuard ==
    [][(pc = "drive_example" /\ prev_cur_time = Sentinel)
         => (/\ R' = R
             /\ pidCalls' = NoCalls
             /\ prev_cur_time' = S.curLapTime)]_vars

\* The first call of a fresh session on an off-track, fast, gear-7 record.
C5_Witness ==
    /\ outcome = "first"
    /\ ticks = 1
    /\ pc = "get_servers_input"
    /\ R = DefaultAction
    /\ S.trackPos = -15000 /\ S.speedX = 150 /\ S.gear = 7 /\ S.track[9] = 0
    /\ S.curLapTime = 200
    /\ prev_cur_time = 200

Min(a, b) == IF a < b THEN a ELSE b

\* The tick computed a steer (it is past the first-tick guard and past the
\* division by track[9]).
SteerComputed == pc = "drive_example" /\ prev_cur_time # Sentinel /\ S.track[9] # 0

\* C6: on a non-first tick whose computed |steer| >= 0.04 with speedX >= 100,
\* clutch becomes min(1, clutch + 0.001), brake becomes min(1, brake + 0.0001),
\* accel and gear keep their values and the speed PID is not called.
C6_HardCornering ==
    [][(SteerComputed /\ Abs(R'.steer) >= 400 /\ S.speedX >= 100)
         => (/\ R'.clutch = Min(One, R.clutch + 10)
             /\ R'.brake = Min(One, R.brake + 1)
             /\ R'.accel = R.accel
             /\ R'.gear = R.gear
             /\ pidCalls'.speed = 0)]_vars

\* Two hard-cornering ticks in a row late in a session: brake has reached 1
\* and stays there.
C6_Witness ==
    /\ outcome = "corner"
    /\ ticks = 2
    /\ pc = "get_servers_input"
    /\ R.brake = One /\ R.clutch = One
    /\ S.speedX = 100

\* C7 as claimed: after any tick whose telemetry has |trackPos| >= 1, accel
\* is 0.3 and the off-track diagnostic was printed (stated for the ticks
\* that raised no error).
C7_OffTrackAlways ==
    (/\ pc = "get_servers_input" /\ ticks > 0
     /\ outcome \in {"first", "corner", "done"}
     /\ Abs(S.trackPos) >= One)
        => (R.accel = 3000 /\ stdout = <<"out of road">>)

\* C7 amended: on a tick that reaches the throttle step (not the first tick,
\* steer computed, hard-cornering branch not taken) with |trackPos| >= 1,
\* accel becomes 0.3 and the diagnostic is printed.
C7_OffTrackAtThrottle ==
    [][(/\ SteerComputed
        /\ ~(Abs(R'.steer) >= 400 /\ S.speedX >= 100)
        /\ Abs(S.trackPos) >= One)
         => (R'.accel = 3000 /\ stdout' = <<"out of road">>)]_vars

\* An off-track tick (trackPos = -1.5) that ran to its end: accel is 0.3,
\* the diagnostic was printed and the speed controller was not called.
C7_Witness ==
    /\ outcome = "done"
    /\ pc = "get_servers_input"
    /\ S.trackPos = -15000
    /\ R.accel = 3000
    /\ stdout = <<"out of road">>
    /\ pidCalls.speed = 0

----------------------------------------------------------------------------
(* Claims about get_gear, checked under SpecGear *)

\* C2 as claimed: for every reported gear and rpm, get_gear completes
\* without error and returns a gear in 1..6.
C2_GearAlwaysValid ==
    probe.called => (probe.ret.raised = "none" /\ probe.ret.value \in 1..6)

C4_OneStepAlways ==
    (probe.called /\ probe.ret.raised = "none")
        => Abs(probe.ret.value - probe.gear) <= 1

\* C4 amended: for every input gear from 0 to 6 and every rpm the returned
\* gear differs from the input gear by at most one; for a gear below 0
\* get_gear returns 1.
C4_OneStepFromZero ==
    /\ (probe.called /\ probe.gear \in 0..6)
         => (/\ probe.ret.raised = "none"
             /\ Abs(probe.ret.value - probe.gear) <= 1)
    /\ (probe.called /\ probe.gear < 0) => probe.ret = Returned(1)

\* gear 6 at rpm 3500 is shifted down to 5, one step.
C4_Witness ==
    /\ probe.called /\ probe.gear = 6 /\ probe.rpm = 3500
    /\ probe.ret = Returned(5)

----------------------------------------------------------------------------
(* Claims about the decoder, checked under SpecDecode *)

NamesOf(msg) == { msg[i].name : i \in 1..Len(msg) }

\* The last group of msg named name
LastGroup(msg, name) ==
    msg[CHOOSE i \in 1..Len(msg) :
          /\ msg[i].name = name
          /\ \A j \in (i + 1)..Len(msg) : msg[j].name # name]

TokenValue(tok) == IF tok.isNum THEN Float(tok.n) ELSE Str(tok.text)

GroupValue(g) ==
    IF Len(g.tokens) = 1 THEN TokenValue(g.tokens[1])
    ELSE List([i \in 1..Len(g.tokens) |-> TokenValue(g.tokens[i])])

\* The payload is empty after trimming: nothing, whitespace, or the sentinel.
Blank(raw) == strip(raw) \in {<<>>, <<"NUL">>}

\* C8 as claimed: after parse_server_str(m), whatever was decoded before,
\* the mapping has exactly one entry per field name occurring in m, each
\* holding the value of the last group of m with that name (stated for the
\* sessions in which no blank payload has been decoded).
C8_BuiltFresh ==
    (decoded.last = "returned" /\ decoded.msg # <<>> /\ <<>> \notin DOMAIN d)
        => (/\ DOMAIN d = NamesOf(decoded.msg)
            /\ \A name \in NamesOf(decoded.msg) :
                 d[name] = GroupValue(LastGroup(decoded.msg, name)))

\* C9 as claimed: decoding a payload that is empty after trimming fails and
\* leaves the telemetry record unchanged.
C9_BlankPayloadRejected ==
    [][(decoded' # decoded /\ Blank(decoded'.raw))
         => (decoded'.last # "returned" /\ d' = d)]_vars

\* C10: a well-formed group with one value token decodes to a scalar number,
\* one with two or more value tokens to the sequence of their numbers, in
\* order (seen in the mapping for the last group of each name).
C10_ScalarOrSequence ==
    decoded.last = "returned" =>
        \A name \in NamesOf(decoded.msg) :
            LET g == LastGroup(decoded.msg, name)
                n == Len(g.tokens)
            IN  (\A i \in 1..n : g.tokens[i].isNum) =>
                    /\ n = 1 => (d[name].kind = "float" /\ d[name].n = g.tokens[1].n)
                    /\ n >= 2 =>
                         /\ d[name].kind = "list"
                         /\ Len(d[name].items) = n
                         /\ \A i \in 1..n : d[name].items[i] = Float(g.tokens[i].n)

\* (track 1 2 30)(rpm 42) decoded: a sequence of three and a scalar.
C10_Witness ==
    /\ decoded.last = "returned"
    /\ Len(decoded.msg) = 2
    /\ decoded.raw[Len(decoded.raw)] = "NUL"
    /\ trackName \in DOMAIN d /\ rpmName \in DOMAIN d
    /\ d[trackName] = List(<<Float(1), Float(2), Float(30)>>)
    /\ d[rpmName] = Float(42)
    /\ decoded.msg[1].name = trackName

----------------------------------------------------------------------------
(* Claims about the action encoder, checked under Spec *)

----------------------------------------------------------------------------
(* Claims about the session, checked under SpecSession *)

\* The datagram has one of the given markers somewhere in it.
HasMarker(s, markers) ==
    \E i \in 1..Len(s), j \in 1..Len(s) : SubSeq(s, i, j) \in markers

\* C12: in get_servers_input a datagram containing the identified, shutdown
\* or restart marker is never handed to the decoder, and the telemetry record
\* (ServerState.d and servstr) changes only in a step whose datagram contains
\* none of the three markers.
C12_MarkersNeverDecoded ==
    [][ /\ ~HasMarker(decoded'.raw, {identified, shutdownMarker, restart})
        /\ (d' # d \/ servstr' # servstr \/ decoded' # decoded)
             => /\ pc = "recvfrom"
                /\ ~HasMarker(sockdata', {identified, shutdownMarker, restart})
                /\ decoded'.raw = sockdata' ]_vars

\* A datagram with telemetry text and the shutdown marker arrived after a
\* place of 2 had been decoded: the session was shut down and the record
\* still holds 2, not the 5 of that datagram.
C12_Witness ==
    /\ sockdata = RacePosGroup(<<"5">>) \o shutdownMarker \o <<"NUL">>
    /\ so = "None"
    /\ racePos \in DOMAIN d
    /\ d[racePos] = destringify(<<<<"2">>>>)
    /\ decoded.raw = RacePosGroup(<<"2">>) \o <<"NUL">>

\* C20: whenever get_servers_input has finished on a datagram with the
\* shutdown marker (and without the identified marker, which is tested
\* first), the socket is released, whether or not a racePos had been decoded
\* before.
C20_ShutdownEndsClosed ==
    ( /\ pc # "recvfrom"
      /\ HasMarker(sockdata, {shutdownMarker})
      /\ ~HasMarker(sockdata, {identified}) )
      => so = "None"

----------------------------------------------------------------------------
(* Further claims about the control loop, checked under Spec *)

\* C13 as claimed: a non-first tick whose track[9] is 0 completes without
\* error and leaves a steer in [-1,1].
C13_ForwardZeroGuarded ==
    (/\ pc = "get_servers_input" /\ ticks > 0
     /\ outcome # "first"
     /\ S.track[9] = 0)
        => (outcome \in {"corner", "done"} /\ InRange(R.steer, -One, One))

\* C14: on every tick that reaches the clutch policy (it ran clutching, so
\* it is past the first-tick guard, took no hard-cornering return and
\* get_gear returned), the final clutch is 0.5 when the gear selected this
\* tick is below 2, and otherwise the clutch the arbitration left (0 below
\* speed 150, else the old clutch + 0.001 capped at 1) minus 0.02, clamped
\* to [0,1].
C14_ClutchPolicy ==
    [][(pc = "drive_example" /\ outcome' = "done")
         => LET arbitrated == IF S.speedX >= 150 THEN Min(One, R.clutch + 10) ELSE 0
                released   == IF arbitrated - 200 < 0 THEN 0 ELSE arbitrated - 200
            IN  /\ prev_cur_time # Sentinel
                /\ ~(Abs(R'.steer) >= 400 /\ S.speedX >= 100)
                /\ R'.clutch = (IF R'.gear < 2 THEN 5000 ELSE released)]_vars

\* A tick at speed 150 in gear 3 late in a session: the clutch, at 1 before
\* the tick, is released to 0.98.
C14_Witness ==
    /\ outcome = "done"
    /\ pc = "get_servers_input"
    /\ S.speedX = 150
    /\ R.gear = 3
    /\ R.clutch = 9800

\* C15 as claimed: every non-first tick that does not take the
\* hard-cornering branch forces brake to 0, and brake is nonzero after a
\* tick only if that tick took the hard-cornering branch.
C15_BrakeOnlyWhenCornering ==
    [][pc = "drive_example"
         => /\ (prev_cur_time # Sentinel /\ outcome' # "corner") => R'.brake = 0
            /\ R'.brake # 0 => outcome' = "corner"]_vars

\* C16 as claimed: after each tick that passes the first-tick guard (stated
\* for the ticks that raised no error), the previous lap time is the
\* current one if that is greater than the old previous lap time, and the
\* current one minus 0.022 otherwise.
C16_BookkeepingEveryTick ==
    [][(/\ pc = "drive_example"
        /\ prev_cur_time # Sentinel
        /\ outcome' \in {"corner", "done"})
         => prev_cur_time' = (IF S.curLapTime > prev_cur_time
                              THEN S.curLapTime ELSE S.curLapTime - 220)]_vars

\* C16 amended: after each tick that reaches the bookkeeping step (past the
\* first-tick guard, no hard-cornering return, no error), the previous lap
\* time is the current one if that is greater than the old previous lap
\* time, and the current one minus 0.022 otherwise; a tick that takes the
\* hard-cornering return leaves the previous lap time as it was.
C16_BookkeepingAtEnd ==
    [][(pc = "drive_example" /\ prev_cur_time # Sentinel)
         => /\ outcome' = "done"
                 => prev_cur_time' = (IF S.curLapTime > prev_cur_time
                                      THEN S.curLapTime ELSE S.curLapTime - 220)
            /\ outcome' = "corner" => prev_cur_time' = prev_cur_time]_vars

\* A completed tick whose lap time 0.02 did not exceed the previous 0.02:
\* the previous lap time is now 0.02 - 0.022.
C16_Witness ==
    /\ outcome = "done"
    /\ pc = "get_servers_input"
    /\ S.curLapTime = 200
    /\ prev_cur_time = -20

\* C18 as claimed: once the previous lap time has left the sentinel -1, no
\* later tick sets it back to the sentinel.
C18_GuardFiresOnce ==
    [][prev_cur_time # Sentinel => prev_cur_time' # Sentinel]_vars

----------------------------------------------------------------------------
(* Claims about distance_from_edge, checked under SpecEdge *)

\* C17 as claimed: the distance from the edge is never negative, and
\* trackPos = x and trackPos = -x give the same distance.
C17_SymmetricNonNegative ==
    probe.called => (probe.ret >= 0 /\ probe.ret = probe.mirrored)

\* C17 amended: the distance from the edge is never negative and is
\* |1 - trackPos| on both sides of the centre line, the distance from the
\* edge at trackPos = 1; x and -x give the same distance only for x = 0.
C17_DistanceFromOneEdge ==
    probe.called
        => /\ probe.ret >= 0
           /\ probe.ret = (IF probe.trackPos <= One THEN One - probe.trackPos
                           ELSE probe.trackPos - One)
           /\ (probe.ret = probe.mirrored <=> probe.trackPos = 0)

\* trackPos = -0.5 is at distance 1.5 and its mirror image 0.5 at 0.5.
C17_Witness ==
    /\ probe.called
    /\ probe.trackPos = -5000
    /\ probe.ret = 15000
    /\ probe.mirrored = 5000

----------------------------------------------------------------------------
(* Hysteresis of get_gear, checked under SpecGear *)

\* C19: at a constant rpm, if get_gear shifts a gear g of 1..5 up to g+1
\* then get_gear on g+1 does not return g, and if it shifts a gear g of 2..6
\* down to g-1 then get_gear on g-1 does not return g.
C19_NoImmediateReversal ==
    probe.fedBack
        => /\ (probe.gear \in 1..5 /\ probe.ret = Returned(probe.gear + 1))
                => probe.next # Returned(probe.gear)
           /\ (probe.gear \in 2..6 /\ probe.ret = Returned(probe.gear - 1))
                => probe.next # Returned(probe.gear)

\* gear 3 at rpm 6000 goes up to 4, and 4 at rpm 6000 stays 4; gear 1 at
\* that rpm would go on to 2 and then 3.
C19_Witness ==
    /\ probe.fedBack
    /\ probe.gear = 3 /\ probe.rpm = 6000
    /\ probe.ret = Returned(4)
    /\ probe.next = Returned(4)

====
